---- MODULE Spec2Model ----
(***************************************************************************)
(* zapcore write syncers (src/zapcore/write_syncer.go):                    *)
(*   - lockedWriteSyncer   (Lock):   a mutex around an inner WriteSyncer   *)
(*   - bufferWriterSyncer  (Buffer): a bufio.Writer, a ticker, a stop      *)
(*                                   channel and the flushLoop goroutine   *)
(*   - multiWriteSyncer    (NewMultiWriteSyncer): fan-out                  *)
(* Each wrapper has its own variables and its own specification; the       *)
(* variables of the other wrappers stay at their initial values.           *)
(***************************************************************************)
EXTENDS Integers, Sequences, FiniteSets, TLC

\* ---------------------------------------------------------------- bounds

\* Write calls issued to the buffering wrapper over a run.
MaxWrites == 2
\* Longest payload of one Write call, in bytes.
MaxLen == 3
\* Largest bufferSize handed to Buffer.
MaxBufferSize == 2
\* Most sinks handed to NewMultiWriteSyncer.
MaxSinks == 3
\* Longest flush interval, in seconds, handed to Buffer.
MaxInterval == 6
\* Most sinks and wrappers alive at once, and most constructor and Sync calls
\* made on them.
MaxObjects == 5
MaxCalls == 3

\* ------------------------------------------------------------- constants

\* _defaultBufferSize = 256 * 1024
_defaultBufferSize == 262144

\* bufio's defaultBufSize, used by bufio.NewWriterSize for a size <= 0.
bufioDefaultBufSize == 4096

\* _defaultFlushInterval = 30 * time.Second, in seconds
_defaultFlushInterval == 30

\* ---------------------------------------------------------------- values

NoErr == "nil"
\* The error an inner sink reports when it fails a write.
ErrSink == "errSink"

NoOwner == "free"

\* The <<n, err>> a call is about to return; NoRet while none is.
NoRet == <<0, NoErr>>

Min(a, b) == IF a < b THEN a ELSE b

\* A byte carries the Write call it came from, its place in that call's
\* payload, and the payload's length: <<call, place, length>>.
Payload(w, len) == [i \in 1..len |-> <<w, i, len>>]

Take(s, n) == SubSeq(s, 1, n)
Drop(s, n) == SubSeq(s, n + 1, Len(s))

RECURSIVE Flatten(_)
Flatten(ss) == IF ss = <<>> THEN <<>> ELSE Head(ss) \o Flatten(Tail(ss))

IsPrefix(s, t) == Len(s) <= Len(t) /\ Take(t, Len(s)) = s

\* s is a concatenation of whole payloads: it starts at the first byte of a
\* payload, ends at the last byte of one, and every byte is followed by the
\* next byte of its payload or, at a payload's end, by the start of another.
WholePayloads(s) ==
    \/ s = <<>>
    \/ /\ s[1][2] = 1
       /\ s[Len(s)][2] = s[Len(s)][3]
       /\ \A i \in 1..(Len(s) - 1) :
            \/ /\ s[i][2] < s[i][3]
               /\ s[i + 1] = <<s[i][1], s[i][2] + 1, s[i][3]>>
            \/ /\ s[i][2] = s[i][3]
               /\ s[i + 1][2] = 1

\* ------------------------------------------------------------- variables

VARIABLES
    \* bufferWriterSyncer
    pc,         \* position of each goroutine
    mu,         \* holder of bufferWriterSyncer's embedded sync.Mutex
    size,       \* capacity of bufferWriter (len(b.buf))
    buf,        \* bufferWriter's buffered bytes (b.buf[0:b.n])
    berr,       \* bufferWriter's sticky error (b.err)
    sink,       \* the physical writes the inner sink has accepted, in order
    tickC,      \* a tick is waiting in ticker.C (a channel of capacity 1)
    tickerOn,   \* the ticker has not been stopped
    stop,       \* the stop channel is closed
    bs,         \* per caller: the bytes of its Write not yet consumed
    nn,         \* per caller: bytes of its Write consumed so far
    ret,        \* per goroutine: <<n, err>> returned by its last call
    nWrites,    \* Write calls issued so far
    accepted,   \* history: the bytes Write calls accepted, in lock order
    closeMark,  \* history: Len(accepted) when close returned, -1 before
    tickErr,    \* history: the sticky error was raised by a flushLoop flush
    sinkSyncs,  \* Sync calls the inner sink has received
    \* lockedWriteSyncer
    lpc,        \* position of each caller
    lmu,        \* holder of lockedWriteSyncer's embedded sync.Mutex
    lrest,      \* per caller: the bytes the inner sink has yet to take
    dest,       \* the bytes the inner sink has taken, in order
    lWrites,    \* Write calls issued so far
    \* multiWriteSyncer
    mpc,        \* position of the caller
    nSinks,     \* len(ws)
    mi,         \* the range loop's index, from 1
    mp,         \* the bytes of the Write call
    writeErr,   \* the error accumulated so far (writeErr, err)
    nWritten,   \* the count accumulated so far
    mcalls,     \* the calls issued to the sinks by the current call, in order
    mres,       \* what the sinks returned to the current call, in order
    \* a call of Buffer
    cpc,            \* "call" before Buffer runs, then "built" or "panicked"
    cBufferSize,    \* Buffer's bufferSize argument
    cFlushInterval, \* Buffer's flushInterval argument, in seconds
    cCap,           \* capacity of the bufio.Writer of the wrapper returned
    cEvery,         \* period of the ticker of the wrapper returned
    \* calls of AddSync and Lock
    heap,       \* the sinks and wrappers that exist: [kind, inner]
    wlog        \* the calls made so far: [op, arg, res, err]

bufVars == <<pc, mu, size, buf, berr, sink, tickC, tickerOn, stop, bs, nn,
             ret, nWrites, accepted, closeMark, tickErr, sinkSyncs>>

lockVars == <<lpc, lmu, lrest, dest, lWrites>>

multiVars == <<mpc, nSinks, mi, mp, writeErr, nWritten, mcalls, mres>>

ctorVars == <<cpc, cBufferSize, cFlushInterval, cCap, cEvery, heap, wlog>>

vars == <<bufVars, lockVars, multiVars, ctorVars>>

\* ------------------------------------------------- bufferWriterSyncer

Callers == {"c1", "c2"}
Loop == "flushLoop"
Closer == "closer"
Procs == Callers \cup {Loop, Closer}

\* A Buffer that replaces every size that is not positive.
BufferSizeOrDefaultNonPositive(bufferSize) ==
    IF bufferSize <= 0 THEN _defaultBufferSize ELSE bufferSize

\* Buffer: bufferSize == 0 selects _defaultBufferSize.
BufferSizeOrDefault(bufferSize) ==
    IF bufferSize = 0 THEN _defaultBufferSize ELSE bufferSize

\* bufio.NewWriterSize: a size <= 0 selects bufio's own default.
NewWriterSize(n) == IF n <= 0 THEN bufioDefaultBufSize ELSE n

BufferSizes == 2..MaxBufferSize

\* bufio.Writer.Available and Buffered.
Available(b, cap) == cap - Len(b)
Buffered(b) == Len(b)

\* A Lock that returns whoever holds the mutex.
MutexFreeAlways(m) == TRUE

\* sync.Mutex.Lock returns only when no goroutine holds the mutex.
MutexFree(m) == m = NoOwner

\* The inner sink's answer to a write of data: it accepts k bytes, all of them
\* (no error) or fewer (and then, as io.Writer requires, an error). A failing
\* sink is tried accepting nothing and accepting a single byte.
ShortCounts == {0, 1}
Outcomes(data) == {Len(data)} \cup {k \in ShortCounts : k < Len(data)}
SinkErr(data, k) == IF k < Len(data) THEN ErrSink ELSE NoErr
SinkGot(data, k) == IF k = 0 THEN <<>> ELSE <<Take(data, k)>>

\* A Flush that forgets an earlier failure and tries the inner sink again.
FlushRetries(b, e, k) ==
    IF Len(b) = 0 THEN [buf |-> b, err |-> NoErr, out |-> <<>>, ret |-> NoErr]
    ELSE IF SinkErr(b, k) # NoErr
         THEN [buf |-> Drop(b, k), err |-> SinkErr(b, k), out |-> SinkGot(b, k),
               ret |-> SinkErr(b, k)]
         ELSE [buf |-> <<>>, err |-> NoErr, out |-> <<b>>, ret |-> NoErr]

\* bufio.Writer.Flush with the inner sink accepting k bytes of the buffer.
Flush(b, e, k) ==
    IF e # NoErr THEN [buf |-> b, err |-> e, out |-> <<>>, ret |-> e]
    ELSE IF Len(b) = 0 THEN [buf |-> b, err |-> e, out |-> <<>>, ret |-> NoErr]
    ELSE IF SinkErr(b, k) # NoErr
         THEN [buf |-> Drop(b, k), err |-> SinkErr(b, k), out |-> SinkGot(b, k),
               ret |-> SinkErr(b, k)]
         ELSE [buf |-> <<>>, err |-> NoErr, out |-> <<b>>, ret |-> NoErr]

\* A Write that flushes first whenever the buffer holds anything.
NeedPreFlushWhenBuffered(p, b, cap) == Buffered(b) > 0

\* A Write that never flushes first and leaves the split to bufio.
NeedPreFlushNever(p, b, cap) == FALSE

\* bufferWriterSyncer.Write's test for flushing the buffer before the write.
NeedPreFlush(p, b, cap) == Len(p) > Available(b, cap) /\ Buffered(b) > 0

\* A Write that hands every payload on at once instead of buffering it.
WriteLoopsWriteThrough(p, b, e, cap) == Len(p) > 0 /\ e = NoErr

\* bufio.Writer.Write's loop condition.
WriteLoops(p, b, e, cap) == Len(p) > Available(b, cap) /\ e = NoErr

\* What one pass of bufio.Writer.Write's loop hands to the inner sink: p
\* itself when the buffer is empty (a large write goes to the sink directly),
\* otherwise the buffer filled up from p.
WriteLoopData(p, b, cap) ==
    IF Buffered(b) = 0 THEN p
    ELSE b \o Take(p, Min(Available(b, cap), Len(p)))

\* One pass of bufio.Writer.Write's loop, the inner sink accepting k bytes
\* of what it is handed; n is the number of bytes of p the pass consumes.
WriteLoopBody(p, b, e, cap, k) ==
    IF Buffered(b) = 0
    THEN [n |-> k, buf |-> b, err |-> SinkErr(p, k), out |-> SinkGot(p, k)]
    ELSE LET f == Flush(WriteLoopData(p, b, cap), e, k)
         IN  [n |-> Min(Available(b, cap), Len(p)), buf |-> f.buf,
              err |-> f.err, out |-> f.out]

\* Buffer(ws, bufferSize, flushInterval): the wrapper it returns, its ticker
\* running and flushLoop started.
Buffer(bufferSize) ==
    /\ pc = [p \in Procs |->
               IF p \in Callers THEN "idle"
               ELSE IF p = Loop THEN "select" ELSE "ready"]
    /\ mu = NoOwner
    /\ size = NewWriterSize(BufferSizeOrDefault(bufferSize))
    /\ buf = <<>>
    /\ berr = NoErr
    /\ sink = <<>>
    /\ tickC = FALSE
    /\ tickerOn = TRUE
    /\ stop = FALSE
    /\ bs = [p \in Callers |-> <<>>]
    /\ nn = [p \in Callers |-> 0]
    /\ ret = [p \in Procs |-> NoRet]
    /\ nWrites = 0
    /\ accepted = <<>>
    /\ closeMark = -1
    /\ tickErr = FALSE
    /\ sinkSyncs = 0

\* A caller calls Write(bs).
CallWrite(p) ==
    /\ pc[p] = "idle"
    /\ nWrites < MaxWrites
    /\ \E len \in 1..MaxLen :
         bs' = [bs EXCEPT ![p] = Payload(nWrites + 1, len)]
    /\ nn' = [nn EXCEPT ![p] = 0]
    /\ nWrites' = nWrites + 1
    /\ pc' = [pc EXCEPT ![p] = "w_lock"]
    /\ UNCHANGED <<lockVars, multiVars, ctorVars, mu, size, buf, berr, sink, tickC,
                   tickerOn, stop, ret, accepted, closeMark, tickErr, sinkSyncs>>

\* A caller calls Sync().
CallSync(p) ==
    /\ pc[p] = "idle"
    /\ pc' = [pc EXCEPT ![p] = "s_lock"]
    /\ UNCHANGED <<lockVars, multiVars, ctorVars, mu, size, buf, berr, sink, tickC,
                   tickerOn, stop, bs, nn, ret, nWrites, accepted, closeMark, tickErr, sinkSyncs>>

\* s.Lock() at the head of Write and of Sync.
Lock(p) ==
    /\ pc[p] \in {"w_lock", "s_lock"}
    /\ MutexFree(mu)
    /\ mu' = p
    /\ pc' = [pc EXCEPT ![p] = IF pc[p] = "w_lock" THEN "w_check" ELSE "s_flush"]
    /\ UNCHANGED <<lockVars, multiVars, ctorVars, size, buf, berr, sink, tickC,
                   tickerOn, stop, bs, nn, ret, nWrites, accepted, closeMark, tickErr, sinkSyncs>>

\* A Write whose failed pre-flush reports the whole payload as written.
WritePreFlushCountsAll(p) ==
    /\ pc[p] = "w_check"
    /\ IF NeedPreFlush(bs[p], buf, size)
       THEN \E k \in Outcomes(buf) :
              LET f == Flush(buf, berr, k) IN
              /\ buf' = f.buf
              /\ berr' = f.err
              /\ sink' = sink \o f.out
              /\ IF f.ret # NoErr
                 THEN /\ ret' = [ret EXCEPT ![p] = <<Len(bs[p]), f.ret>>]
                      /\ pc' = [pc EXCEPT ![p] = "w_unlock"]
                 ELSE /\ ret' = ret
                      /\ pc' = [pc EXCEPT ![p] = "w_append"]
       ELSE /\ pc' = [pc EXCEPT ![p] = "w_append"]
            /\ UNCHANGED <<buf, berr, sink, ret>>
    /\ UNCHANGED <<lockVars, multiVars, ctorVars, mu, size, tickC, tickerOn, stop, bs,
                   nn, nWrites, accepted, closeMark, tickErr, sinkSyncs>>

\* Write: the pre-flush decision and, when taken, the flush; a failed flush
\* returns (0, err).
WritePreFlush(p) ==
    /\ pc[p] = "w_check"
    /\ IF NeedPreFlush(bs[p], buf, size)
       THEN \E k \in Outcomes(buf) :
              LET f == Flush(buf, berr, k) IN
              /\ buf' = f.buf
              /\ berr' = f.err
              /\ sink' = sink \o f.out
              /\ IF f.ret # NoErr
                 THEN /\ ret' = [ret EXCEPT ![p] = <<0, f.ret>>]
                      /\ pc' = [pc EXCEPT ![p] = "w_unlock"]
                 ELSE /\ ret' = ret
                      /\ pc' = [pc EXCEPT ![p] = "w_append"]
       ELSE /\ pc' = [pc EXCEPT ![p] = "w_append"]
            /\ UNCHANGED <<buf, berr, sink, ret>>
    /\ UNCHANGED <<lockVars, multiVars, ctorVars, mu, size, tickC, tickerOn, stop, bs,
                   nn, nWrites, accepted, closeMark, tickErr, sinkSyncs>>

\* Write: s.bufferWriter.Write(bs), one pass of its loop or its tail.
WriteAppend(p) ==
    /\ pc[p] = "w_append"
    /\ IF WriteLoops(bs[p], buf, berr, size)
       THEN \E k \in Outcomes(WriteLoopData(bs[p], buf, size)) :
              LET r == WriteLoopBody(bs[p], buf, berr, size, k) IN
              /\ buf' = r.buf
              /\ berr' = r.err
              /\ sink' = sink \o r.out
              /\ nn' = [nn EXCEPT ![p] = @ + r.n]
              /\ bs' = [bs EXCEPT ![p] = Drop(@, r.n)]
              /\ accepted' = accepted \o Take(bs[p], r.n)
              /\ UNCHANGED <<pc, ret>>
       ELSE IF berr # NoErr
       THEN /\ ret' = [ret EXCEPT ![p] = <<nn[p], berr>>]
            /\ pc' = [pc EXCEPT ![p] = "w_unlock"]
            /\ UNCHANGED <<buf, berr, sink, nn, bs, accepted>>
       ELSE /\ buf' = buf \o bs[p]
            /\ nn' = [nn EXCEPT ![p] = @ + Len(bs[p])]
            /\ bs' = [bs EXCEPT ![p] = <<>>]
            /\ accepted' = accepted \o bs[p]
            /\ ret' = [ret EXCEPT ![p] = <<nn[p] + Len(bs[p]), NoErr>>]
            /\ pc' = [pc EXCEPT ![p] = "w_unlock"]
            /\ UNCHANGED <<berr, sink>>
    /\ UNCHANGED <<lockVars, multiVars, ctorVars, mu, size, tickC, tickerOn, stop,
                   nWrites, closeMark, tickErr, sinkSyncs>>

\* A Sync that flushes and then calls the inner sink's Sync.
SyncFlushThrough(p) ==
    /\ pc[p] = "s_flush"
    /\ \E k \in Outcomes(buf) :
         LET f == Flush(buf, berr, k) IN
         /\ buf' = f.buf
         /\ berr' = f.err
         /\ sink' = sink \o f.out
         /\ ret' = [ret EXCEPT ![p] = <<0, f.ret>>]
         /\ tickErr' = IF berr = NoErr /\ f.err # NoErr THEN p = Loop
                       ELSE tickErr
    /\ sinkSyncs' = sinkSyncs + 1
    /\ pc' = [pc EXCEPT ![p] = "s_unlock"]
    /\ UNCHANGED <<lockVars, multiVars, ctorVars, mu, size, tickC, tickerOn, stop, bs,
                   nn, nWrites, accepted, closeMark>>

\* Sync: s.bufferWriter.Flush().
SyncFlush(p) ==
    /\ pc[p] = "s_flush"
    /\ \E k \in Outcomes(buf) :
         LET f == Flush(buf, berr, k) IN
         /\ buf' = f.buf
         /\ berr' = f.err
         /\ sink' = sink \o f.out
         /\ ret' = [ret EXCEPT ![p] = <<0, f.ret>>]
         /\ tickErr' = IF berr = NoErr /\ f.err # NoErr THEN p = Loop
                       ELSE tickErr
    /\ pc' = [pc EXCEPT ![p] = "s_unlock"]
    /\ UNCHANGED <<lockVars, multiVars, ctorVars, mu, size, tickC, tickerOn, stop, bs,
                   nn, nWrites, accepted, closeMark, sinkSyncs>>

\* A return from Write or Sync that leaves the mutex locked.
UnlockKeepsMutex(p) ==
    /\ pc[p] \in {"w_unlock", "s_unlock"}
    /\ pc' = [pc EXCEPT ![p] =
                IF p \in Callers THEN "idle"
                ELSE IF p = Loop THEN "select" ELSE "closed"]
    /\ ret' = [ret EXCEPT ![p] = NoRet]
    /\ bs' = [q \in Callers |-> IF q = p THEN <<>> ELSE bs[q]]
    /\ nn' = [q \in Callers |-> IF q = p THEN 0 ELSE nn[q]]
    /\ closeMark' = IF p = Closer THEN Len(accepted) ELSE closeMark
    /\ UNCHANGED <<lockVars, multiVars, ctorVars, mu, size, buf, berr, sink,
                   tickC, tickerOn, stop, nWrites, accepted, tickErr,
                   sinkSyncs>>

\* The deferred s.Unlock(), and the return to whoever called: ret[p] is what
\* the call returns, and the call's registers are dead once it has returned.
Unlock(p) ==
    /\ pc[p] \in {"w_unlock", "s_unlock"}
    /\ mu' = NoOwner
    /\ pc' = [pc EXCEPT ![p] =
                IF p \in Callers THEN "idle"
                ELSE IF p = Loop THEN "select" ELSE "closed"]
    /\ ret' = [ret EXCEPT ![p] = NoRet]
    /\ bs' = [q \in Callers |-> IF q = p THEN <<>> ELSE bs[q]]
    /\ nn' = [q \in Callers |-> IF q = p THEN 0 ELSE nn[q]]
    /\ closeMark' = IF p = Closer THEN Len(accepted) ELSE closeMark
    /\ UNCHANGED <<lockVars, multiVars, ctorVars, size, buf, berr, sink, tickC,
                   tickerOn, stop, nWrites, accepted, tickErr, sinkSyncs>>

\* The ticker sends a tick; it drops the tick when one is still waiting.
Tick ==
    /\ tickerOn
    /\ ~tickC
    /\ tickC' = TRUE
    /\ UNCHANGED <<lockVars, multiVars, ctorVars, pc, mu, size, buf, berr, sink,
                   tickerOn, stop, bs, nn, ret, nWrites, accepted, closeMark, tickErr, sinkSyncs>>

\* A flushLoop that takes the tick and goes back to waiting.
LoopTickNoSync ==
    /\ pc[Loop] = "select"
    /\ tickC
    /\ tickC' = FALSE
    /\ UNCHANGED <<lockVars, multiVars, ctorVars, pc, mu, size, buf, berr, sink,
                   tickerOn, stop, bs, nn, ret, nWrites, accepted, closeMark, tickErr, sinkSyncs>>

\* flushLoop: case <-s.ticker.C: _ = s.Sync()
LoopTick ==
    /\ pc[Loop] = "select"
    /\ tickC
    /\ tickC' = FALSE
    /\ pc' = [pc EXCEPT ![Loop] = "s_lock"]
    /\ UNCHANGED <<lockVars, multiVars, ctorVars, mu, size, buf, berr, sink, tickerOn,
                   stop, bs, nn, ret, nWrites, accepted, closeMark, tickErr, sinkSyncs>>

\* flushLoop: case <-s.stop: return
LoopStop ==
    /\ pc[Loop] = "select"
    /\ stop
    /\ pc' = [pc EXCEPT ![Loop] = "exited"]
    /\ UNCHANGED <<lockVars, multiVars, ctorVars, mu, size, buf, berr, sink, tickC,
                   tickerOn, stop, bs, nn, ret, nWrites, accepted, closeMark, tickErr, sinkSyncs>>

\* A close that leaves the ticker running.
CloseTickerKeepsTicking ==
    /\ pc[Closer] = "ready"
    /\ pc' = [pc EXCEPT ![Closer] = "c_signal"]
    /\ UNCHANGED <<lockVars, multiVars, ctorVars, mu, size, buf, berr, sink,
                   tickC, tickerOn, stop, bs, nn, ret, nWrites, accepted,
                   closeMark, tickErr, sinkSyncs>>

\* close: s.ticker.Stop()
CloseTickerStop ==
    /\ pc[Closer] = "ready"
    /\ tickerOn' = FALSE
    /\ pc' = [pc EXCEPT ![Closer] = "c_signal"]
    /\ UNCHANGED <<lockVars, multiVars, ctorVars, mu, size, buf, berr, sink, tickC,
                   stop, bs, nn, ret, nWrites, accepted, closeMark, tickErr, sinkSyncs>>

\* A close that signals stop and returns without the final Sync.
CloseSignalNoSync ==
    /\ pc[Closer] = "c_signal"
    /\ stop' = TRUE
    /\ pc' = [pc EXCEPT ![Closer] = "closed"]
    /\ closeMark' = Len(accepted)
    /\ UNCHANGED <<lockVars, multiVars, ctorVars, mu, size, buf, berr, sink, tickC,
                   tickerOn, bs, nn, ret, nWrites, accepted, tickErr, sinkSyncs>>

\* A close that signals stop only when nobody has, and goes on to Sync.
CloseSignalOnce ==
    /\ pc[Closer] = "c_signal"
    /\ stop' = TRUE
    /\ pc' = [pc EXCEPT ![Closer] = "s_lock"]
    /\ UNCHANGED <<lockVars, multiVars, ctorVars, mu, size, buf, berr, sink,
                   tickC, tickerOn, bs, nn, ret, nWrites, accepted, closeMark,
                   tickErr, sinkSyncs>>

\* close: close(s.stop), then return s.Sync(). close of a channel that is
\* already closed panics, and the panic leaves close before s.Sync().
CloseSignal ==
    /\ pc[Closer] = "c_signal"
    /\ stop' = TRUE
    /\ pc' = [pc EXCEPT ![Closer] = IF stop THEN "panicked" ELSE "s_lock"]
    /\ UNCHANGED <<lockVars, multiVars, ctorVars, mu, size, buf, berr, sink, tickC,
                   tickerOn, bs, nn, ret, nWrites, accepted, closeMark, tickErr, sinkSyncs>>

\* close called again by the caller it has returned to: s.ticker.Stop() on
\* the stopped ticker does nothing.
CloseAgain ==
    /\ pc[Closer] = "closed"
    /\ tickerOn' = FALSE
    /\ pc' = [pc EXCEPT ![Closer] = "c_signal"]
    /\ UNCHANGED <<lockVars, multiVars, ctorVars, mu, size, buf, berr, sink,
                   tickC, stop, bs, nn, ret, nWrites, accepted, closeMark,
                   tickErr, sinkSyncs>>

NextBuffer ==
    \/ \E p \in Callers : CallWrite(p)
    \/ \E p \in Callers : CallSync(p)
    \/ \E p \in Procs : Lock(p)
    \/ \E p \in Callers : WritePreFlush(p)
    \/ \E p \in Callers : WriteAppend(p)
    \/ \E p \in Procs : SyncFlush(p)
    \/ \E p \in Procs : Unlock(p)
    \/ Tick
    \/ LoopTick
    \/ LoopStop
    \/ CloseTickerStop
    \/ CloseSignal

\* -------------------------------------------------- lockedWriteSyncer

LCallers == {"a", "b", "c"}

\* A Lock that returns whoever holds the mutex.
LockedMutexFreeAlways(m) == TRUE

\* sync.Mutex.Lock returns only when no goroutine holds the mutex.
LockedMutexFree(m) == m = NoOwner

\* Lock(ws): a fresh wrapper around ws.
LockNew ==
    /\ lpc = [p \in LCallers |-> "idle"]
    /\ lmu = NoOwner
    /\ lrest = [p \in LCallers |-> <<>>]
    /\ dest = <<>>
    /\ lWrites = 0

\* A caller calls Write(bs).
LockedCallWrite(p) ==
    /\ lpc[p] = "idle"
    /\ lWrites < MaxWrites
    /\ \E len \in 1..MaxLen :
         lrest' = [lrest EXCEPT ![p] = Payload(lWrites + 1, len)]
    /\ lWrites' = lWrites + 1
    /\ lpc' = [lpc EXCEPT ![p] = "w_lock"]
    /\ UNCHANGED <<bufVars, multiVars, ctorVars, lmu, dest>>

\* A caller calls Sync().
LockedCallSync(p) ==
    /\ lpc[p] = "idle"
    /\ lpc' = [lpc EXCEPT ![p] = "s_lock"]
    /\ UNCHANGED <<bufVars, multiVars, ctorVars, lmu, lrest, dest, lWrites>>

\* s.Lock()
LockedLock(p) ==
    /\ lpc[p] \in {"w_lock", "s_lock"}
    /\ LockedMutexFree(lmu)
    /\ lmu' = p
    /\ lpc' = [lpc EXCEPT ![p] = IF lpc[p] = "w_lock" THEN "w_inner" ELSE "s_inner"]
    /\ UNCHANGED <<bufVars, multiVars, ctorVars, lrest, dest, lWrites>>

\* s.ws.Write(bs): the inner sink takes the bytes one after the other, and
\* returns when it has taken the last.
LockedInnerWrite(p) ==
    /\ lpc[p] = "w_inner"
    /\ dest' = Append(dest, Head(lrest[p]))
    /\ lrest' = [lrest EXCEPT ![p] = Tail(@)]
    /\ lpc' = [lpc EXCEPT ![p] = IF Len(lrest[p]) = 1 THEN "unlock" ELSE "w_inner"]
    /\ UNCHANGED <<bufVars, multiVars, ctorVars, lmu, lWrites>>

\* s.ws.Sync()
LockedInnerSync(p) ==
    /\ lpc[p] = "s_inner"
    /\ lpc' = [lpc EXCEPT ![p] = "unlock"]
    /\ UNCHANGED <<bufVars, multiVars, ctorVars, lmu, lrest, dest, lWrites>>

\* s.Unlock(), and the return.
LockedUnlock(p) ==
    /\ lpc[p] = "unlock"
    /\ lmu' = NoOwner
    /\ lpc' = [lpc EXCEPT ![p] = "idle"]
    /\ UNCHANGED <<bufVars, multiVars, ctorVars, lrest, dest, lWrites>>

NextLock ==
    \/ \E p \in LCallers : LockedCallWrite(p)
    \/ \E p \in LCallers : LockedCallSync(p)
    \/ \E p \in LCallers : LockedLock(p)
    \/ \E p \in LCallers : LockedInnerWrite(p)
    \/ \E p \in LCallers : LockedInnerSync(p)
    \/ \E p \in LCallers : LockedUnlock(p)

\* --------------------------------------------------- multiWriteSyncer

\* A sink's error is named by the sink's place in ws; 0 is the nil error.
ErrOf(i) == i
IsNil(e) == e = 0

\* An accumulation that keeps only the latest result (err = w.Sync()).
MultierrAppendLast(left, right) ==
    IF IsNil(right) THEN <<>> ELSE <<right>>

\* multierr.Append: the errors of left followed by those of right, nil
\* errors dropped; the empty list is the nil error.
MultierrAppend(left, right) ==
    IF IsNil(right) THEN left ELSE Append(left, right)

\* A count that is the plain minimum, starting from nWritten := 0.
CountAfterPlainMin(nw, n) == IF n < nw THEN n ELSE nw

\* multiWriteSyncer.Write's count: the first non-zero count, then any
\* smaller one.
CountAfter(nw, n) ==
    IF nw = 0 /\ n # 0 THEN n
    ELSE IF n < nw THEN n
    ELSE nw

\* `for _, w := range ws` has run out of sinks.
RangeDone(i, n) == i > n

\* NewMultiWriteSyncer(ws...) for len(ws) = n, n # 1.
MultiNew(n) ==
    /\ mpc = "idle"
    /\ nSinks = n
    /\ mi = 1
    /\ mp = <<>>
    /\ writeErr = <<>>
    /\ nWritten = 0
    /\ mcalls = <<>>
    /\ mres = <<>>

MultiCanCall == mpc \in {"idle", "w_ret", "s_ret"}

\* A caller calls Write(p).
MultiCallWrite ==
    /\ MultiCanCall
    /\ \E len \in 1..MaxLen : mp' = Payload(1, len)
    /\ mpc' = "write"
    /\ mi' = 1
    /\ writeErr' = <<>>
    /\ nWritten' = 0
    /\ mcalls' = <<>>
    /\ mres' = <<>>
    /\ UNCHANGED <<bufVars, lockVars, ctorVars, nSinks>>

\* Write: one pass of the loop, the sink returning (n, e).
MultiWriteSink ==
    /\ mpc = "write"
    /\ ~RangeDone(mi, nSinks)
    /\ \E n \in 0..Len(mp), e \in {0, ErrOf(mi)} :
         /\ writeErr' = MultierrAppend(writeErr, e)
         /\ nWritten' = CountAfter(nWritten, n)
         /\ mres' = Append(mres, <<n, e>>)
    /\ mcalls' = Append(mcalls, <<mi, "Write", mp>>)
    /\ mi' = mi + 1
    /\ UNCHANGED <<bufVars, lockVars, ctorVars, mpc, nSinks, mp>>

\* A Write that returns as soon as a sink has failed.
MultiWriteReturnEarly ==
    /\ mpc = "write"
    /\ RangeDone(mi, nSinks) \/ writeErr # <<>>
    /\ mpc' = "w_ret"
    /\ UNCHANGED <<bufVars, lockVars, ctorVars, nSinks, mi, mp, writeErr, nWritten,
                   mcalls, mres>>

\* Write: return nWritten, writeErr
MultiWriteReturn ==
    /\ mpc = "write"
    /\ RangeDone(mi, nSinks)
    /\ mpc' = "w_ret"
    /\ UNCHANGED <<bufVars, lockVars, ctorVars, nSinks, mi, mp, writeErr, nWritten,
                   mcalls, mres>>

\* A caller calls Sync().
MultiCallSync ==
    /\ MultiCanCall
    /\ mpc' = "sync"
    /\ mi' = 1
    /\ mp' = <<>>
    /\ writeErr' = <<>>
    /\ nWritten' = 0
    /\ mcalls' = <<>>
    /\ mres' = <<>>
    /\ UNCHANGED <<bufVars, lockVars, ctorVars, nSinks>>

\* Sync: one pass of the loop, the sink's Sync returning e.
MultiSyncSink ==
    /\ mpc = "sync"
    /\ ~RangeDone(mi, nSinks)
    /\ \E e \in {0, ErrOf(mi)} :
         /\ writeErr' = MultierrAppend(writeErr, e)
         /\ mres' = Append(mres, <<0, e>>)
    /\ mcalls' = Append(mcalls, <<mi, "Sync", <<>>>>)
    /\ mi' = mi + 1
    /\ UNCHANGED <<bufVars, lockVars, ctorVars, mpc, nSinks, mp, nWritten>>

\* Sync: return err
MultiSyncReturn ==
    /\ mpc = "sync"
    /\ RangeDone(mi, nSinks)
    /\ mpc' = "s_ret"
    /\ UNCHANGED <<bufVars, lockVars, ctorVars, nSinks, mi, mp, writeErr, nWritten,
                   mcalls, mres>>

NextMulti ==
    \/ MultiCallWrite
    \/ MultiWriteSink
    \/ MultiWriteReturn
    \/ MultiCallSync
    \/ MultiSyncSink
    \/ MultiSyncReturn

\* ------------------------------------------------------ a call of Buffer

\* Buffer: flushInterval == 0 selects _defaultFlushInterval.
FlushIntervalOrDefault(flushInterval) ==
    IF flushInterval = 0 THEN _defaultFlushInterval ELSE flushInterval

\* time.NewTicker panics on a period that is not positive.
NewTickerPanics(d) == d <= 0

ConfSizes == (0 - MaxBufferSize)..MaxBufferSize
ConfIntervals == (0 - MaxInterval)..MaxInterval

\* A caller about to call Buffer(ws, bufferSize, flushInterval).
ConfigCall(bufferSize, flushInterval) ==
    /\ cpc = "call"
    /\ cBufferSize = bufferSize
    /\ cFlushInterval = flushInterval
    /\ cCap = 0
    /\ cEvery = 0

\* Buffer(ws, bufferSize, flushInterval): the two defaults, then
\* bufio.NewWriterSize and time.NewTicker.
ConfigBuffer ==
    /\ cpc = "call"
    /\ LET bufferSize == BufferSizeOrDefault(cBufferSize)
           flushInterval == FlushIntervalOrDefault(cFlushInterval)
       IN  IF NewTickerPanics(flushInterval)
           THEN /\ cpc' = "panicked"
                /\ UNCHANGED <<cCap, cEvery>>
           ELSE /\ cpc' = "built"
                /\ cCap' = NewWriterSize(bufferSize)
                /\ cEvery' = flushInterval
    /\ UNCHANGED <<bufVars, lockVars, multiVars, cBufferSize, cFlushInterval,
                   heap, wlog>>

NextConfig == ConfigBuffer

\* ------------------------------------------------ AddSync and Lock

\* What exists is a table; a reference is an index into it. An io.Writer
\* with no Sync method has kind "writer", a destination with its own Sync
\* "syncer", a *lockedWriteSyncer "locked" and a writerWrapper "wrapper".
\* writerWrapper is a struct value: two writerWrapper{w} of one w are equal,
\* and are one entry of the table.
Object(kind, inner) == [kind |-> kind, inner |-> inner]

\* An AddSync that wraps whatever it is given.
HasSyncNever(h, w) == FALSE

\* AddSync: case WriteSyncer
HasSync(h, w) == h[w].kind # "writer"

\* A Lock that wraps whatever it is given.
IsLockedNever(h, ws) == FALSE

\* Lock: ws.(*lockedWriteSyncer)
IsLocked(h, ws) == h[ws].kind = "locked"

\* The entries equal to the value o.
Same(h, o) == {i \in DOMAIN h : h[i] = o}

\* Sync on ws: the destination whose own Sync it ends in, 0 when none.
\* writerWrapper.Sync returns nil; lockedWriteSyncer.Sync calls s.ws.Sync().
RECURSIVE SyncReaches(_, _)
SyncReaches(h, ws) ==
    IF h[ws].kind = "wrapper" THEN 0
    ELSE IF h[ws].kind = "locked" THEN SyncReaches(h, h[ws].inner)
    ELSE ws

\* Write on w: the destination that receives the bytes. writerWrapper embeds
\* its io.Writer; lockedWriteSyncer.Write calls s.ws.Write(bs).
RECURSIVE WriteReaches(_, _)
WriteReaches(h, w) ==
    IF h[w].kind \in {"wrapper", "locked"} THEN WriteReaches(h, h[w].inner)
    ELSE w

Called(op, arg, res, err) == [op |-> op, arg |-> arg, res |-> res, err |-> err]

\* One plain io.Writer and one destination with its own Sync.
WrapNew ==
    /\ heap = <<Object("writer", 0), Object("syncer", 0)>>
    /\ wlog = <<>>

\* AddSync(w)
AddSync(w) ==
    /\ Len(wlog) < MaxCalls
    /\ w \in DOMAIN heap
    /\ IF HasSync(heap, w)
       THEN /\ wlog' = Append(wlog, Called("AddSync", w, w, 0))
            /\ heap' = heap
       ELSE IF Same(heap, Object("wrapper", w)) # {}
       THEN /\ wlog' = Append(wlog, Called("AddSync", w,
                           CHOOSE i \in Same(heap, Object("wrapper", w)) : TRUE, 0))
            /\ heap' = heap
       ELSE /\ Len(heap) < MaxObjects
            /\ heap' = Append(heap, Object("wrapper", w))
            /\ wlog' = Append(wlog, Called("AddSync", w, Len(heap) + 1, 0))
    /\ UNCHANGED <<bufVars, lockVars, multiVars, cpc, cBufferSize,
                   cFlushInterval, cCap, cEvery>>

\* Lock(ws)
LockCall(ws) ==
    /\ Len(wlog) < MaxCalls
    /\ ws \in DOMAIN heap
    /\ heap[ws].kind # "writer"
    /\ IF IsLocked(heap, ws)
       THEN /\ wlog' = Append(wlog, Called("Lock", ws, ws, 0))
            /\ heap' = heap
       ELSE /\ Len(heap) < MaxObjects
            /\ heap' = Append(heap, Object("locked", ws))
            /\ wlog' = Append(wlog, Called("Lock", ws, Len(heap) + 1, 0))
    /\ UNCHANGED <<bufVars, lockVars, multiVars, cpc, cBufferSize,
                   cFlushInterval, cCap, cEvery>>

\* ws.Sync() on a sink or wrapper; a destination's own Sync may fail.
WrapperSync(ws) ==
    /\ Len(wlog) < MaxCalls
    /\ ws \in DOMAIN heap
    /\ heap[ws].kind # "writer"
    /\ LET reached == SyncReaches(heap, ws) IN
       \E err \in IF reached = 0 THEN {0} ELSE {0, 1} :
         wlog' = Append(wlog, Called("Sync", ws, reached, err))
    /\ UNCHANGED <<bufVars, lockVars, multiVars, cpc, cBufferSize,
                   cFlushInterval, cCap, cEvery, heap>>

NextWrap ==
    \/ \E w \in 1..MaxObjects : AddSync(w)
    \/ \E ws \in 1..MaxObjects : LockCall(ws)
    \/ \E ws \in 1..MaxObjects : WrapperSync(ws)

\* Nothing under construction.
CtorIdle == ConfigCall(0, 0) /\ WrapNew

\* ------------------------------------------------------ specifications

\* The buffering wrapper, its callers, its closer and flushLoop.
InitBuffer ==
    /\ CtorIdle
    /\ \E bufferSize \in BufferSizes : Buffer(bufferSize)
    /\ LockNew
    /\ MultiNew(2)

SpecBuffer == InitBuffer /\ [][NextBuffer]_vars

\* The buffering wrapper left to its timer: callers only Write, nobody calls
\* Sync or close. The ticker keeps ticking, flushLoop is scheduled whenever
\* it can run, and whoever holds the mutex goes on to release it.
NextPeriodic ==
    \/ \E p \in Callers : CallWrite(p)
    \/ \E p \in Callers \cup {Loop} : Lock(p)
    \/ \E p \in Callers : WritePreFlush(p)
    \/ \E p \in Callers : WriteAppend(p)
    \/ SyncFlush(Loop)
    \/ \E p \in Callers \cup {Loop} : Unlock(p)
    \/ Tick
    \/ LoopTick

FairPeriodic ==
    /\ WF_vars(Tick)
    /\ WF_vars(LoopTick)
    /\ WF_vars(Lock(Loop))
    /\ WF_vars(SyncFlush(Loop))
    /\ WF_vars(Unlock(Loop))
    /\ \A p \in Callers :
         /\ WF_vars(WritePreFlush(p))
         /\ WF_vars(WriteAppend(p))
         /\ WF_vars(Unlock(p))

SpecPeriodic == InitBuffer /\ [][NextPeriodic]_vars /\ FairPeriodic

\* The buffering wrapper with everyone scheduled fairly. A select with a
\* ready case proceeds; sync.Mutex hands the lock to a goroutine that keeps
\* waiting for it (its starvation mode), so whoever waits in Lock gets the
\* mutex in the end; whoever holds the mutex goes on to release it, the
\* inner sink's Write returning every time. Nobody is bound to call Write,
\* Sync or close, and the ticker is not bound to tick.
FairBuffer ==
    /\ WF_vars(LoopTick \/ LoopStop)
    /\ WF_vars(CloseSignal)
    /\ \A p \in Procs :
         /\ SF_vars(Lock(p))
         /\ WF_vars(SyncFlush(p))
         /\ WF_vars(Unlock(p))
    /\ \A p \in Callers :
         /\ WF_vars(WritePreFlush(p))
         /\ WF_vars(WriteAppend(p))

SpecShutdown == InitBuffer /\ [][NextBuffer]_vars /\ FairBuffer

\* The buffering wrapper with its writers, its timer and a caller of close
\* that calls close a second time; nobody else calls Sync. The panic of the
\* second call is taken to be recovered by its caller: the other goroutines
\* go on.
NextCloseTwice ==
    \/ \E p \in Callers : CallWrite(p)
    \/ \E p \in Procs : Lock(p)
    \/ \E p \in Callers : WritePreFlush(p)
    \/ \E p \in Callers : WriteAppend(p)
    \/ \E p \in {Loop, Closer} : SyncFlush(p)
    \/ \E p \in Procs : Unlock(p)
    \/ Tick
    \/ LoopTick
    \/ LoopStop
    \/ CloseTickerStop
    \/ CloseSignal
    \/ CloseAgain

SpecCloseTwice == InitBuffer /\ [][NextCloseTwice]_vars

\* The mutex wrapper and its callers.
InitLock ==
    /\ CtorIdle
    /\ Buffer(MaxBufferSize)
    /\ LockNew
    /\ MultiNew(2)

SpecLock == InitLock /\ [][NextLock]_vars

\* The fan-out wrapper over two or more sinks, and its caller.
InitMulti ==
    /\ CtorIdle
    /\ Buffer(MaxBufferSize)
    /\ LockNew
    /\ \E n \in 2..MaxSinks : MultiNew(n)

SpecMulti == InitMulti /\ [][NextMulti]_vars

\* Buffer called with every size and interval of a small range around zero.
InitConfig ==
    /\ Buffer(MaxBufferSize)
    /\ LockNew
    /\ MultiNew(2)
    /\ \E bufferSize \in ConfSizes, flushInterval \in ConfIntervals :
         ConfigCall(bufferSize, flushInterval)
    /\ WrapNew

SpecConfig == InitConfig /\ [][NextConfig]_vars

\* AddSync, Lock and Sync called on two destinations and on what the calls
\* return.
InitWrap ==
    /\ Buffer(MaxBufferSize)
    /\ LockNew
    /\ MultiNew(2)
    /\ CtorIdle

SpecWrap == InitWrap /\ [][NextWrap]_vars

\* -------------------------------------------------------------- claims

\* The callers inside the inner sink's Write or Sync.
LockedInFlight == {p \in LCallers : lpc[p] \in {"w_inner", "s_inner"}}

\* Every payload's bytes lie side by side and in order in s; only the last
\* payload may still be short of its end.
Contiguous(s) ==
    /\ s # <<>> => s[1][2] = 1
    /\ \A i \in 1..(Len(s) - 1) :
         IF s[i][2] < s[i][3]
         THEN s[i + 1] = <<s[i][1], s[i][2] + 1, s[i][3]>>
         ELSE s[i + 1][2] = 1

\* C1: with any number of concurrent callers of a locked sink's Write and
\* Sync, at most one call is in flight against the inner sink, and the bytes
\* of each Write reach the inner sink side by side, never interleaved with
\* another Write's.
C1_LockSerializes ==
    /\ Cardinality(LockedInFlight) <= 1
    /\ Contiguous(dest)

\* C1's case: one caller's Write is half way through the inner sink while a
\* second caller waits for the mutex to write and a third to sync.
C1_Witness ==
    \E p, q, r \in LCallers :
       /\ lpc[p] = "w_inner" /\ lrest[p] # <<>> /\ dest # <<>>
       /\ dest[Len(dest)][2] < dest[Len(dest)][3]
       /\ lpc[q] = "w_lock"
       /\ lpc[r] = "s_lock"

\* C2: over an inner sink that accepts every write in full, every physical
\* write the inner sink receives from the buffering wrapper is a
\* concatenation of whole Write payloads: none holds a proper suffix of one
\* payload or a proper prefix of another.
C2_Framing ==
    berr = NoErr => \A i \in 1..Len(sink) : WholePayloads(sink[i])

\* C2's case: with capacity 2, a 1-byte write and then a 3-byte write reach
\* the sink as the 1 byte (the pre-flush) and then the 3 bytes.
C2_Witness ==
    /\ size = 2
    /\ berr = NoErr
    /\ sink = <<Payload(1, 1), Payload(2, 3)>>

\* The positions at which a goroutine holds the wrapper's mutex.
InCritical(p) ==
    pc[p] \in {"w_check", "w_append", "w_unlock", "s_flush", "s_unlock"}

\* C3: Write, Sync and the timer-tick flush exclude each other: a goroutine
\* between s.Lock() and s.Unlock() holds the mutex and no other goroutine is
\* there, so from a Write's pre-flush decision to its append nobody else
\* reads or changes the buffer.
C3_Exclusive ==
    \A p \in Procs :
       InCritical(p) =>
          /\ mu = p
          /\ \A q \in Procs \ {p} : ~InCritical(q)

\* C3's case: a Write has decided and is about to append to a non-empty
\* buffer while the other caller (to sync), flushLoop (on a tick) and close
\* all wait for the mutex.
C3_Witness ==
    \E p, q \in Callers :
       /\ pc[p] = "w_append" /\ buf # <<>>
       /\ pc[q] = "s_lock"
       /\ pc[Loop] = "s_lock"
       /\ pc[Closer] = "s_lock"

\* C4: over an inner sink that never fails, the bytes the inner sink has
\* received are always a prefix of the accepted bytes in lock order, and
\* once close has returned they include every byte accepted before it; with
\* no Write after it they are all the accepted bytes.
C4_Delivery ==
    berr = NoErr =>
       /\ IsPrefix(Flatten(sink), accepted)
       /\ pc[Closer] = "closed" => Len(Flatten(sink)) >= closeMark
       /\ (pc[Closer] = "closed" /\ closeMark = Len(accepted))
             => Flatten(sink) = accepted

\* C4's case: close has returned after two or more Writes, none after it,
\* and the sink holds all of their bytes.
C4_Witness ==
    /\ pc[Closer] = "closed"
    /\ berr = NoErr
    /\ nWrites >= 2
    /\ \A p \in Callers : pc[p] = "idle"
    /\ closeMark = Len(accepted)
    /\ Len(accepted) >= 2
    /\ Len(sink) >= 1

\* C5: once close has stopped the ticker and closed the stop channel,
\* flushLoop handles no tick and performs no flush.
C5_NoFlushAfterStop ==
    [][(~tickerOn /\ stop) =>
          /\ ~(pc[Loop] = "select" /\ pc'[Loop] = "s_lock")
          /\ ~(pc[Loop] = "s_flush" /\ pc'[Loop] = "s_unlock")]_vars

\* The places in accepted of the bytes of Write call w, and whether all of
\* them are at the inner sink.
AcceptedOf(w) == {i \in 1..Len(accepted) : accepted[i][1] = w}
DeliveredOf(w) ==
    \A i \in AcceptedOf(w) :
       i <= Len(Flatten(sink)) /\ Flatten(sink)[i] = accepted[i]

\* C6: with no close and no explicit Sync, a tick handled by flushLoop
\* flushes everything buffered before it, and so the bytes a Write call had
\* accepted are eventually all at the inner sink, unless the sink fails.
C6_PeriodicFlush ==
    /\ [][(pc[Loop] = "s_flush" /\ pc'[Loop] = "s_unlock" /\ berr' = NoErr)
             => (buf' = <<>> /\ Flatten(sink') = accepted')]_vars
    /\ \A w \in 1..MaxWrites :
         (AcceptedOf(w) # {}) ~> (DeliveredOf(w) \/ berr # NoErr)

\* C6's case: one 1-byte Write, which fits the buffer, has reached the sink
\* by flushLoop's flush on a tick.
C6_Witness ==
    /\ pc[Loop] = "s_unlock"
    /\ nWrites = 1
    /\ berr = NoErr
    /\ sink = <<Payload(1, 1)>>

\* C7 as claimed: once close has returned, whenever no Write is under way
\* every accepted byte is at the inner sink, with no further Sync.
C7_VisibleAfterClose ==
    (/\ closeMark >= 0
     /\ berr = NoErr
     /\ \A p \in Callers : pc[p] = "idle")
       => Flatten(sink) = accepted

\* C7, amended: after close has returned a Write is buffered like any other.
\* Every accepted byte is at the sink or still in the buffer; a payload that
\* fits the buffer's available room is appended to the buffer and nothing is
\* written to the sink; an explicit Sync that succeeds is what brings all
\* accepted bytes to the sink.
C7_BufferedAfterClose ==
    /\ [](closeMark >= 0 /\ berr = NoErr => Flatten(sink) \o buf = accepted)
    /\ [][\A p \in Callers :
            (/\ closeMark >= 0 /\ berr = NoErr
             /\ pc[p] = "w_append"
             /\ Len(bs[p]) <= Available(buf, size)
             /\ bs'[p] # bs[p])
               => (sink' = sink /\ buf' = buf \o bs[p])]_vars
    /\ [][\A p \in Callers :
            (/\ closeMark >= 0
             /\ pc[p] = "s_flush" /\ pc'[p] = "s_unlock"
             /\ berr' = NoErr)
               => (buf' = <<>> /\ Flatten(sink') = accepted')]_vars

\* C7's case: close has returned, a Write after it has returned too, and its
\* bytes are in the buffer, not at the sink.
C7_Witness ==
    /\ closeMark >= 0
    /\ berr = NoErr
    /\ \A p \in Callers : pc[p] = "idle"
    /\ Len(accepted) > closeMark
    /\ buf # <<>>
    /\ Flatten(sink) # accepted

\* What the sinks returned to the current call: their counts, their errors,
\* and the errors that are not nil, in sequence order.
CountsOf(res) == [j \in 1..Len(res) |-> res[j][1]]
ErrsOf(res) == [j \in 1..Len(res) |-> res[j][2]]
NonNil(e) == e # 0
FailuresOf(res) == SelectSeq(ErrsOf(res), NonNil)

\* C8: a fan-out Write over two or more sinks issues exactly one Write of
\* the same bytes to every sink, in sequence order, whatever earlier sinks
\* returned; the error it returns is nil exactly when every sink returned
\* nil, and otherwise holds every sink's error in sequence order.
C8_FanOutWrite ==
    mpc \in {"write", "w_ret"} =>
       /\ \A j \in 1..Len(mcalls) : mcalls[j] = <<j, "Write", mp>>
       /\ mpc = "w_ret" =>
            /\ Len(mcalls) = nSinks
            /\ writeErr = <<>> <=> \A j \in 1..nSinks : mres[j][2] = 0
            /\ writeErr = FailuresOf(mres)

\* C8's case: three sinks, the second fails the write; all three were
\* written and the error returned is the second sink's.
C8_Witness ==
    /\ mpc = "w_ret"
    /\ nSinks = 3
    /\ ErrsOf(mres) = <<0, 2, 0>>
    /\ Len(mcalls) = 3
    /\ writeErr = <<2>>

Minimum(S) == CHOOSE x \in S : \A y \in S : x <= y

\* The minimum of the non-zero counts, 0 when there is none.
MinNonZero(counts) ==
    LET nz == {counts[j] : j \in 1..Len(counts)} \ {0}
    IN  IF nz = {} THEN 0 ELSE Minimum(nz)

\* The place of the last zero count, 0 when there is none.
LastZero(counts) ==
    LET zs == {j \in 1..Len(counts) : counts[j] = 0}
    IN  IF zs = {} THEN 0 ELSE CHOOSE j \in zs : \A i \in zs : i <= j

\* No sink reports zero after a sink that reported a non-zero count.
ZerosFirst(counts) ==
    \A i, j \in 1..Len(counts) : (i < j /\ counts[i] # 0) => counts[j] # 0

C10_FanOutSync ==
    mpc \in {"sync", "s_ret"} =>
       /\ \A j \in 1..Len(mcalls) : mcalls[j] = <<j, "Sync", <<>>>>
       /\ mpc = "s_ret" =>
            /\ Len(mcalls) = nSinks
            /\ writeErr = <<>> <=> \A j \in 1..nSinks : mres[j][2] = 0

\* C10's case: three sinks, the first fails its Sync; the other two were
\* synced all the same and the error returned is not nil.
C10_Witness ==
    /\ mpc = "s_ret"
    /\ nSinks = 3
    /\ ErrsOf(mres) = <<1, 0, 0>>
    /\ Len(mcalls) = 3
    /\ writeErr # <<>>

\* C11: a flush error raised on a flushLoop tick, which flushLoop discards, is
\* returned by every later explicit Sync and by the final Sync of close, and
\* those calls write nothing to the inner sink.
C11_TickErrorKept ==
    [][\A p \in Callers \cup {Closer} :
         (tickErr /\ pc[p] = "s_flush" /\ pc'[p] = "s_unlock")
           => /\ ret'[p] = <<0, ErrSink>>
              /\ berr' = ErrSink
              /\ sink' = sink]_vars

\* close returns the error of a failed tick flush, the unflushed bytes still
\* in the buffer.
C11_Witness ==
    /\ tickErr
    /\ pc[Closer] = "s_unlock"
    /\ ret[Closer] = <<0, ErrSink>>
    /\ buf # <<>>
    /\ pc[Loop] = "select"

\* C12 as stated: Buffer returns a wrapper of capacity _defaultBufferSize for
\* every bufferSize <= 0 and of period _defaultFlushInterval for every
\* flushInterval <= 0.
C12_NonPositiveDefaults ==
    cpc # "call" =>
      /\ cBufferSize <= 0 => cCap = _defaultBufferSize
      /\ cFlushInterval <= 0 => cpc = "built" /\ cEvery = _defaultFlushInterval

\* C12 amended: the defaults are selected by zero alone. A positive value is
\* used as given, a negative bufferSize reaches bufio.NewWriterSize, which
\* makes it 4096, and a negative flushInterval reaches time.NewTicker, which
\* panics, so Buffer returns no wrapper.
C12_ZeroDefaults ==
    /\ cpc = "panicked" => cFlushInterval < 0
    /\ cpc = "built" =>
         /\ cFlushInterval >= 0
         /\ cBufferSize = 0 => cCap = _defaultBufferSize
         /\ cBufferSize > 0 => cCap = cBufferSize
         /\ cBufferSize < 0 => cCap = bufioDefaultBufSize
         /\ cFlushInterval = 0 => cEvery = _defaultFlushInterval
         /\ cFlushInterval > 0 => cEvery = cFlushInterval

\* Buffer(ws, -1, 0) has returned.
C12_Witness ==
    /\ cpc = "built"
    /\ cBufferSize = -1
    /\ cFlushInterval = 0
    /\ cCap = bufioDefaultBufSize
    /\ cEvery = _defaultFlushInterval

LogOf(op) == {i \in DOMAIN wlog : wlog[i].op = op}

\* C13: Lock is idempotent. Lock of a mutex wrapper returns that same
\* wrapper and creates nothing, so Lock(Lock(s)) is the instance Lock(s)
\* returned, and no mutex wrapper ever wraps another.
C13_LockIdempotent ==
    /\ \A i \in LogOf("Lock") :
         /\ heap[wlog[i].res].kind = "locked"
         /\ heap[wlog[i].arg].kind = "locked" => wlog[i].res = wlog[i].arg
         /\ heap[wlog[i].arg].kind # "locked" =>
              heap[wlog[i].res].inner = wlog[i].arg
    /\ \A i, j \in LogOf("Lock") :
         (i < j /\ wlog[j].arg = wlog[i].res) => wlog[j].res = wlog[i].res
    /\ \A o \in DOMAIN heap :
         heap[o].kind = "locked" => heap[heap[o].inner].kind # "locked"

\* Lock(s) made a wrapper of the destination and Lock of that wrapper
\* returned it.
C13_Witness ==
    /\ Len(wlog) >= 2
    /\ wlog[1] = Called("Lock", 2, 3, 0)
    /\ wlog[2] = Called("Lock", 3, 3, 0)
    /\ heap[3] = Object("locked", 2)
    /\ Len(heap) = 3

\* C14: AddSync returns a destination that has Sync unchanged; a destination
\* without Sync is returned inside a writerWrapper that passes Write to it
\* and whose Sync returns nil and reaches no destination; AddSync of what
\* AddSync returned is that same sink.
C14_AddSyncIdentity ==
    /\ \A i \in LogOf("AddSync") :
         LET w == wlog[i].arg
             r == wlog[i].res
         IN  /\ heap[w].kind # "writer" => r = w
             /\ heap[w].kind = "writer" =>
                  /\ heap[r] = Object("wrapper", w)
                  /\ WriteReaches(heap, r) = w
                  /\ SyncReaches(heap, r) = 0
    /\ \A i, j \in LogOf("AddSync") :
         (i < j /\ wlog[j].arg = wlog[i].res) => wlog[j].res = wlog[i].res
    /\ \A i \in LogOf("Sync") :
         heap[wlog[i].arg].kind = "wrapper" =>
           wlog[i].res = 0 /\ wlog[i].err = 0

\* AddSync wrapped the plain writer, AddSync of the wrapper returned the
\* wrapper, and the wrapper's Sync returned nil.
C14_Witness ==
    /\ Len(wlog) = 3
    /\ wlog[1] = Called("AddSync", 1, 3, 0)
    /\ wlog[2] = Called("AddSync", 3, 3, 0)
    /\ wlog[3] = Called("Sync", 3, 0, 0)
    /\ heap[3] = Object("wrapper", 1)

\* C15: a Write whose pre-flush fails returns (0, the flush's error) and
\* appends nothing of its payload; a Write that gets as far as
\* bufio.Writer.Write returns that call's count and error.
C15_PreFlushFailure ==
    [][\A p \in Callers :
         /\ (pc[p] = "w_check" /\ pc'[p] = "w_unlock") =>
              /\ NeedPreFlush(bs[p], buf, size)
              /\ berr' # NoErr
              /\ ret'[p] = <<0, berr'>>
              /\ bs'[p] = bs[p]
              /\ accepted' = accepted
              /\ buf' = Drop(buf, Len(buf) - Len(buf'))
         /\ (pc[p] = "w_append" /\ pc'[p] = "w_unlock") =>
              IF bs'[p] = <<>>
              THEN ret'[p] = <<accepted'[Len(accepted')][3], NoErr>>
              ELSE /\ berr' # NoErr
                   /\ ret'[p] = <<bs'[p][1][2] - 1, berr'>>]_vars

\* A Write of two bytes into a buffer holding one byte of two: the pre-flush
\* failed at the sink and Write is about to return (0, err), its payload
\* whole and outside the buffer.
C15_Witness ==
    \E p \in Callers :
      /\ pc[p] = "w_unlock"
      /\ ret[p] = <<0, ErrSink>>
      /\ bs[p] = Payload(2, 2)
      /\ buf = Payload(1, 1)
      /\ accepted = Payload(1, 1)
      /\ sink = <<>>
      /\ ~tickErr

\* C16: Write flushes first exactly when its payload is longer than the room
\* left and the buffer holds something. After that test, a payload longer
\* than the whole buffer finds the buffer empty and goes to the inner sink as
\* one physical write of the whole payload, the buffer staying empty; a
\* payload that fits the room left is copied into the buffer and nothing is
\* written to the sink.
C16_PreFlushAndBypass ==
    [][\A p \in Callers :
         /\ (pc[p] = "w_check" /\ pc'[p] # "w_check") =>
              IF Len(bs[p]) > size - Len(buf) /\ Len(buf) > 0
              THEN \/ pc'[p] = "w_unlock" /\ berr' # NoErr
                   \/ /\ pc'[p] = "w_append"
                      /\ buf' = <<>>
                      /\ sink' = Append(sink, buf)
              ELSE /\ pc'[p] = "w_append"
                   /\ UNCHANGED <<buf, sink, berr>>
         /\ (pc[p] = "w_append" /\ (bs'[p] # bs[p] \/ pc'[p] # "w_append")
               /\ berr = NoErr) =>
              /\ Len(bs[p]) > size =>
                   /\ buf = <<>> /\ buf' = <<>>
                   /\ nn[p] = 0
                   /\ berr' = NoErr =>
                        sink' = Append(sink, bs[p]) /\ bs'[p] = <<>>
              /\ Len(bs[p]) <= size - Len(buf) =>
                   /\ sink' = sink
                   /\ buf' = buf \o bs[p]]_vars

\* A three-byte Write into a two-byte buffer holding one byte: the byte was
\* flushed first and the payload then written to the sink in one piece.
C16_Witness ==
    \E p \in Callers :
      /\ pc[p] = "w_append"
      /\ size = 2
      /\ bs[p] = <<>>
      /\ nn[p] = 3
      /\ sink = <<Payload(1, 1), Payload(2, 3)>>
      /\ buf = <<>>
      /\ berr = NoErr

\* C17: flushLoop goes from running to stopped and never back, and only
\* close stops it: it has not exited unless close has closed the stop
\* channel. Once stop is closed no new tick arrives, so flushLoop handles at
\* most the one tick already waiting, and under fair scheduling it exits.
C17_LoopStopsOnce ==
    /\ [](pc[Loop] = "exited" =>
           stop /\ pc[Closer] \notin {"ready", "c_signal"})
    /\ [][pc[Loop] = "exited" => pc'[Loop] = "exited"]_vars
    /\ [][(stop /\ ~tickC) => ~tickC']_vars
    /\ (stop ~> pc[Loop] = "exited")

\* flushLoop has exited while close, having signalled, still waits for the
\* mutex that a caller holds.
C17_Witness ==
    /\ pc[Loop] = "exited"
    /\ stop
    /\ pc[Closer] = "s_lock"
    /\ mu \in Callers

\* C18: close returns. Whoever holds the mutex is inside Write or Sync on
\* its way to Unlock, and under fair scheduling a close that has begun gets
\* the mutex, flushes and returns, whatever the callers and flushLoop do.
C18_CloseReturns ==
    /\ [](mu # NoOwner => InCritical(mu))
    /\ (pc[Closer] = "c_signal" ~> pc[Closer] = "closed")

\* close waits for the mutex while flushLoop is inside its tick flush and
\* two callers wait as well.
C18_Witness ==
    /\ pc[Closer] = "s_lock"
    /\ mu = Loop
    /\ pc[Loop] = "s_flush"
    /\ pc["c1"] = "w_lock"
    /\ pc["c2"] = "s_lock"

\* C19: the buffering wrapper never calls the inner sink's Sync: whatever
\* Write, Sync, the tick flush and close have done, the inner sink has
\* received Write calls only.
C19_NoInnerSync == sinkSyncs = 0

\* close has returned after a tick flush that failed part-way: the sink has
\* been written to and its Sync has not been called.
C19_Witness ==
    /\ pc[Closer] = "closed"
    /\ tickErr
    /\ sink # <<>>
    /\ sinkSyncs = 0

\* C20: a second call of close performs no flush. It stops the stopped
\* ticker, panics at close(s.stop) and never reaches s.Sync(): it takes no
\* mutex, writes nothing to the inner sink and leaves the buffer as it was.
C20_SecondCloseNoFlush ==
    [][/\ (pc[Closer] = "closed" /\ pc'[Closer] # "closed") =>
            /\ pc'[Closer] = "c_signal"
            /\ UNCHANGED <<buf, sink, berr, mu, stop>>
       /\ (pc[Closer] = "c_signal" /\ stop /\ pc'[Closer] # "c_signal") =>
            /\ pc'[Closer] = "panicked"
            /\ UNCHANGED <<buf, sink, berr, mu, stop>>
       /\ pc[Closer] = "panicked" => pc'[Closer] = "panicked"]_vars

\* The second close has panicked with a byte, written after the first close
\* returned, still in the buffer.
C20_Witness ==
    /\ pc[Closer] = "panicked"
    /\ closeMark = 0
    /\ buf = Payload(1, 1)
    /\ sink = <<>>

====
